---- MODULE Spec2Model ----
(***************************************************************************)
(* Model of the lead-capture chat service of src/app.py: the LeadManager   *)
(* store (tables leads and mensagens), the SDRChatbot completion gateway   *)
(* and the Flask routes GET /, POST /chat and GET /health.                 *)
(*                                                                         *)
(* A text is a sequence of pieces; the piece " " is whitespace, every      *)
(* other piece is a run of non-whitespace characters.  str.strip() is the  *)
(* operator Strip below.                                                   *)
(***************************************************************************)
EXTENDS Integers, Sequences, FiniteSets, TLC

\* ------------------------------------------------------------------ bounds
\* Longest conversation history handed to get_response in SpecGateway.
MaxHist == 9
\* Rows the table mensagens may hold (guards of the inserting actions).
MaxMsgs == 3
\* Rows the table mensagens may hold in SpecFaults, where the lead operations
\* run beside the message operations.
MaxStoreMsgs == 1
\* Longest list of arbitrary dictionaries handed to get_response.
MaxAnyHist == 2
\* Last value of the one-second clock behind CURRENT_TIMESTAMP.
MaxClock == 1
\* POST /chat requests accepted in one behaviour of Spec.
MaxTurns == 2

\* --------------------------------------------------------- program constants
\* conversation_history[-8:] if len(conversation_history) > 8
HistoryWindow == 8

\* ------------------------------------------------------------------- texts
Null == "<NULL>"
Space == " "
\* A BOOLEAN column holds 1 for Python's True and 0 for FALSE.
SqlTrue == "1"
SqlFalse == "0"

RECURSIVE LStrip(_)
LStrip(t) ==
    IF t # <<>> /\ Head(t) = Space THEN LStrip(Tail(t)) ELSE t

RECURSIVE RStrip(_)
RStrip(t) ==
    IF t # <<>> /\ t[Len(t)] = Space THEN RStrip(SubSeq(t, 1, Len(t) - 1)) ELSE t

\* str.strip(): leading and trailing whitespace removed, inner whitespace kept.
Strip(t) == RStrip(LStrip(t))

\* str.startswith(prefix)
StartsWith(t, prefix) ==
    Len(t) >= Len(prefix) /\ SubSeq(t, 1, Len(prefix)) = prefix

\* ------------------------------------------------------------ store: schema
\* A connection string is a text whose pieces are "postgres", "ql", "://"
\* and runs of other characters.
\* self.is_postgres of LeadManager.__init__, which get_connection and every
\* statement of the store branch on.
IsPostgres(db_url) ==
    \/ StartsWith(db_url, <<"postgres", "ql", "://">>)
    \/ StartsWith(db_url, <<"postgres", "://">>)

SessionIds == {"s1", "s2", "s3"}

\* Columns of table leads that the modelled operations read or write (id and
\* created_at are assigned by the engine and read only by /admin/leads).
LeadColumns ==
    {"session_id", "nome", "empresa", "segmento", "problema",
     "investimento_atual", "telefone", "email", "qualificado",
     "conversa_completa"}

\* allowed_fields of update_lead
AllowedFields ==
    {"nome", "empresa", "segmento", "problema", "investimento_atual",
     "telefone", "email", "qualificado", "conversa_completa"}

\* INSERT INTO leads (session_id) VALUES (?): every other column takes its
\* default, NULL, and qualificado takes DEFAULT FALSE.
NewLead(sid) ==
    [c \in LeadColumns |->
        IF c = "session_id" THEN sid
        ELSE IF c = "qualificado" THEN SqlFalse
        ELSE Null]

\* Points at which one store call can fail: opening the connection, executing
\* the statement, committing.  "none" is a call that succeeds.
Faults == {"none", "connect", "execute", "commit"}

\* A connection in autocommit mode: the statement's effect stays although
\* commit() raised.
CommittedAuto(old, new, fault) ==
    IF fault \in {"none", "commit"} THEN new ELSE old

\* What the table holds after a write transaction: the statement's effect is
\* durable only once commit() returned; on any exception the connection is
\* dropped uncommitted.
Committed(old, new, fault) ==
    IF fault = "none" THEN new ELSE old

HasLead(rows, sid) == \E i \in 1..Len(rows) : rows[i]["session_id"] = sid

\* A plain INSERT, without OR IGNORE / ON CONFLICT DO NOTHING and without the
\* UNIQUE constraint.
InsertLeadAlways(rows, sid) == Append(rows, NewLead(sid))

\* INSERT OR REPLACE INTO leads (session_id) VALUES (?): an existing row is
\* replaced by a row of defaults.
InsertOrReplaceLead(rows, sid) ==
    IF HasLead(rows, sid)
    THEN [i \in 1..Len(rows) |->
            IF rows[i]["session_id"] = sid THEN NewLead(sid) ELSE rows[i]]
    ELSE Append(rows, NewLead(sid))

\* INSERT OR IGNORE INTO leads (session_id) VALUES (?)  /
\* INSERT ... ON CONFLICT (session_id) DO NOTHING, session_id being UNIQUE.
InsertLead(rows, sid) ==
    IF HasLead(rows, sid) THEN rows ELSE Append(rows, NewLead(sid))

\* A SET list built without the allow-list: every key that names a column.
SetKeysAnyColumn(data) == DOMAIN data \cap LeadColumns

\* The SET list update_lead builds: the keys of data that pass the allow-list.

SetKeys(data) == DOMAIN data \cap AllowedFields

\* An upsert: the UPDATE, and an INSERT of the row when none matched.
UpdateRowsUpsert(rows, sid, data) ==
    LET keys == SetKeys(data)
        base == IF HasLead(rows, sid) THEN rows ELSE Append(rows, NewLead(sid))
    IN  [i \in 1..Len(base) |->
            IF base[i]["session_id"] = sid
            THEN [c \in LeadColumns |-> IF c \in keys THEN data[c] ELSE base[i][c]]
            ELSE base[i]]

\* UPDATE leads SET k = v, ... WHERE session_id = ?
UpdateRows(rows, sid, data) ==
    LET keys == SetKeys(data) IN
    [i \in 1..Len(rows) |->
        IF rows[i]["session_id"] = sid
        THEN [c \in LeadColumns |-> IF c \in keys THEN data[c] ELSE rows[i][c]]
        ELSE rows[i]]

\* INSERT INTO mensagens (session_id, role, content) VALUES (?, ?, ?); the
\* timestamp column takes DEFAULT CURRENT_TIMESTAMP.
InsertMessage(rows, sid, role, content, ts) ==
    Append(rows, [session_id |-> sid, role |-> role, content |-> content,
                  timestamp |-> ts])

\* SELECT ... FROM mensagens without the WHERE clause.
SessionRowsNoWhere(rows, sid) == rows

\* SELECT ... FROM mensagens WHERE session_id = ?
SessionRows(rows, sid) == SelectSeq(rows, LAMBDA r : r.session_id = sid)

\* Permutations of 1..n
Perms(n) == {p \in [1..n -> 1..n] : \A i, j \in 1..n : i # j => p[i] # p[j]}

\* ORDER BY timestamp ASC: every order of the selected rows in which the
\* timestamps ascend; rows of equal timestamp come in an order the engine
\* chooses.
OrderByTimestamp(rs) ==
    {[i \in 1..Len(rs) |-> rs[p[i]]] : p \in
        {q \in Perms(Len(rs)) :
            \A i, j \in 1..Len(rs) :
                i < j => rs[q[i]].timestamp <= rs[q[j]].timestamp}}

\* messages.append({'role': row[0], 'content': row[1], 'timestamp': str(row[2])})
HistoryEntries(ordered) ==
    [i \in 1..Len(ordered) |->
        [role |-> ordered[i].role, content |-> ordered[i].content,
         timestamp |-> ordered[i].timestamp]]

\* The lists get_conversation_history can return on a working store.
Histories(rows, sid) ==
    {HistoryEntries(o) : o \in OrderByTimestamp(SessionRows(rows, sid))}

\* COUNT(CASE WHEN col ... THEN 1 END)
CountRows(rows, P(_)) == Cardinality({i \in 1..Len(rows) : P(rows[i])})

\* int(q / n * 1000) / 10: the tenths cut off instead of rounded.
RoundTenthsDown(q, n) == (1000 * q) \div n

\* round(q / n * 100, 1) in tenths of a percent, n > 0: the nearest tenth,
\* an exact half going to the even tenth.
RoundTenths(q, n) ==
    LET num == 1000 * q
        lo  == num \div n
        r2  == 2 * (num % n)
    IN  IF r2 < n THEN lo
        ELSE IF r2 > n THEN lo + 1
        ELSE IF lo % 2 = 0 THEN lo ELSE lo + 1

\* The dictionary get_leads_stats builds from the one row of its query;
\* taxa_qualificacao is held in tenths of a percent.
LeadsStats(rows) ==
    LET total == CountRows(rows, LAMBDA r : TRUE)
        qual  == CountRows(rows, LAMBDA r : r["qualificado"] = SqlTrue)
    IN  [total_leads |-> total,
         leads_qualificados |-> qual,
         leads_com_nome |-> CountRows(rows, LAMBDA r : r["nome"] # Null),
         leads_com_email |-> CountRows(rows, LAMBDA r : r["email"] # Null),
         taxa_qualificacao |-> IF total > 0 THEN RoundTenths(qual, total) ELSE 0]

\* The dictionary of the except branch of get_leads_stats.
ZeroStats ==
    [total_leads |-> 0, leads_qualificados |-> 0, leads_com_nome |-> 0,
     leads_com_email |-> 0, taxa_qualificacao |-> 0]

\* ------------------------------------------------- gateway: SDRChatbot
\* self.system_prompt, one fixed text.
SystemPrompt == <<"# Script SDR Completo - Qualificacao Natural + Oportunidades em 5 Minutos ...">>

\* The three fixed strings of the except branches of get_response.
TimeoutReply == <<"Ops, demorei um pouco para responder. Pode repetir sua pergunta?">>
HttpErrorReply == <<"Tive um probleminha tecnico. Pode tentar novamente?">>
GenericReply == <<"Ops, tive um problema tecnico. Pode repetir sua pergunta?">>

\* conversation_history[:8]: the oldest entries instead of the newest.
OldestHistory(history) ==
    IF Len(history) > HistoryWindow THEN SubSeq(history, 1, HistoryWindow) ELSE history

\* conversation_history[-8:] if len(conversation_history) > 8 else conversation_history
RecentHistory(history) ==
    IF Len(history) > HistoryWindow
    THEN SubSeq(history, Len(history) - HistoryWindow + 1, Len(history))
    ELSE history

\* msg['role'], msg['content'] raise KeyError on an entry without the key.
EntryOk(msg) == {"role", "content"} \subseteq DOMAIN msg

\* The list messages that get_response builds before the call.
BuildMessages(message, history) ==
    LET recent == RecentHistory(history) IN
    <<[role |-> "system", content |-> SystemPrompt]>>
    \o [i \in 1..Len(recent) |->
            [role |-> recent[i]["role"], content |-> recent[i]["content"]]]
    \o <<[role |-> "user", content |-> message]>>

\* The remote call ends in a timeout, in another transport error, or in a
\* response with a status and a body; a body is malformed (no JSON, or no
\* choices[0].message.content string) or carries the content.
MalformedBody == [ok |-> FALSE]
GoodBody(text) == [ok |-> TRUE, content |-> text]

\* response.raise_for_status(): HTTPError for 400 <= status < 600.
IsHttpError(status) == 400 <= status /\ status < 600

\* A get_response without the except HTTPError clause.
ReplyNoHttpClause(outcome) ==
    IF outcome.kind = "timeout" THEN TimeoutReply
    ELSE IF outcome.kind = "transport" THEN GenericReply
    ELSE IF IsHttpError(outcome.status) THEN GenericReply
    ELSE IF ~outcome.body.ok THEN GenericReply
    ELSE Strip(outcome.body.content)

\* The try block of get_response and its three except clauses.
Reply(outcome) ==
    IF outcome.kind = "timeout" THEN TimeoutReply
    ELSE IF outcome.kind = "transport" THEN GenericReply
    ELSE IF IsHttpError(outcome.status) THEN HttpErrorReply
    ELSE IF ~outcome.body.ok THEN GenericReply
    ELSE Strip(outcome.body.content)

\* get_response(message, conversation_history): the loop over recent_history
\* runs outside the try block, so its KeyError reaches the caller and no
\* call is made; otherwise one call is made and a string is returned.
GetResponse(message, history, outcome) ==
    IF \A i \in 1..Len(RecentHistory(history)) : EntryOk(RecentHistory(history)[i])
    THEN [raised |-> FALSE, called |-> TRUE,
          sent |-> BuildMessages(message, history), value |-> Reply(outcome)]
    ELSE [raised |-> TRUE, called |-> FALSE, sent |-> <<>>, value |-> <<>>]

\* ------------------------------------------------------------------- state
VARIABLES
    DATABASE_URL, \* the connection string read from the environment
    lead_manager, \* the global lead_manager is an instance (TRUE) or None
    chatbot,      \* the global chatbot is an instance (TRUE) or None
    leads,        \* table leads, in insertion order
    mensagens,    \* table mensagens, in insertion (id) order
    now,          \* the engine's clock, in seconds
    last,         \* the direct store call (or GET /health, or banner line)
                  \* that returned last: op, arguments, fault, ret
    session,      \* per browser, the session_id of its Flask session cookie
    pc,           \* per request thread, its position in chat()
    req,          \* per request thread, the request, the locals of chat() and,
                  \* once it answered, the response
    turns,        \* POST /chat requests that passed validation
    calls,        \* outbound calls made to the completion endpoint
    g_in,         \* SpecGateway: the arguments and the remote outcome drawn
    g_out         \* SpecGateway: what get_response did with them

vars == <<DATABASE_URL, lead_manager, chatbot, leads, mensagens, now, last, session, pc, req,
          turns, calls, g_in, g_out>>

storeVars == <<leads, mensagens, now, last>>
webVars == <<session, pc, req, turns, calls>>
configVars == <<DATABASE_URL, lead_manager, chatbot>>
gatewayVars == <<g_in, g_out>>

Clients == {"A", "B"}
Threads == {"t1", "t2"}

NoCall == [op |-> "none"]
NoSession == "<none>"
NoRequest == [client |-> "<none>"]
NoInput == [message |-> <<>>]
NoResult == [done |-> FALSE]

\* The module-level try block: LeadManager(DATABASE_URL) raised (both globals
\* None), or GROQ_API_KEY is unset (chatbot None), or both instances exist.
Configs == {<<TRUE, TRUE>>, <<TRUE, FALSE>>, <<FALSE, FALSE>>}

\* os.getenv('DATABASE_URL', '/tmp/leads.db') with the variable unset.
DefaultDatabaseUrl == <<"/tmp/leads.db">>

InitUrl == DATABASE_URL = DefaultDatabaseUrl

InitStore ==
    /\ leads = <<>>
    /\ mensagens = <<>>
    /\ now = 0
    /\ last = NoCall

InitWeb ==
    /\ session = [c \in Clients |-> NoSession]
    /\ pc = [t \in Threads |-> "idle"]
    /\ req = [t \in Threads |-> NoRequest]
    /\ turns = 0
    /\ calls = 0

InitGatewayIdle ==
    /\ g_in = NoInput
    /\ g_out = NoResult

\* The service after start-up, in any of its configurations.
Init ==
    /\ InitUrl
    /\ \E cfg \in Configs : lead_manager = cfg[1] /\ chatbot = cfg[2]
    /\ InitStore
    /\ InitWeb
    /\ InitGatewayIdle

\* The service after a start-up in which both globals were constructed.
InitConfigured ==
    /\ InitUrl
    /\ lead_manager = TRUE
    /\ chatbot = TRUE
    /\ InitStore
    /\ InitWeb
    /\ InitGatewayIdle

\* ------------------------------------------------- store: LeadManager calls
\* What each call leaves in its table.
\* create_lead(session_id)
LeadsAfterCreate(sid, fault) == Committed(leads, InsertLead(leads, sid), fault)

\* update_lead(session_id, data): execute and commit run only if some key
\* passed the allow-list.
LeadsAfterUpdate(sid, data, fault) ==
    IF SetKeys(data) # {}
    THEN Committed(leads, UpdateRows(leads, sid, data), fault)
    ELSE leads

\* save_message(session_id, role, content)
MensagensAfterSave(sid, role, content, fault) ==
    Committed(mensagens, InsertMessage(mensagens, sid, role, content, now), fault)

\* What get_conversation_history(session_id) can return: a read, it never
\* commits; the except branch returns [].
HistoryReturns(sid, fault) ==
    IF fault = "none" THEN Histories(mensagens, sid) ELSE {<<>>}

\* What get_leads_stats() returns: a read, it never commits.
StatsReturn(fault) ==
    IF fault = "none" THEN LeadsStats(leads) ELSE ZeroStats

ReadFaults == {"none", "connect", "execute"}

\* The faults update_lead can meet: with no allow-listed key it neither
\* executes nor commits.
UpdateFaults(data) == IF SetKeys(data) # {} THEN Faults ELSE {"none", "connect"}

\* The five calls made directly on the store object; last holds what the
\* caller passed and got back.
CreateLead(sid, fault) ==
    /\ leads' = LeadsAfterCreate(sid, fault)
    /\ last' = [op |-> "create_lead", sid |-> sid, fault |-> fault,
                ret |-> (fault = "none")]
    /\ UNCHANGED <<mensagens, now, webVars, configVars, gatewayVars>>

UpdateLead(sid, data, fault) ==
    /\ fault \in UpdateFaults(data)
    /\ leads' = LeadsAfterUpdate(sid, data, fault)
    /\ last' = [op |-> "update_lead", sid |-> sid, data |-> data,
                fault |-> fault, ret |-> (fault = "none")]
    /\ UNCHANGED <<mensagens, now, webVars, configVars, gatewayVars>>

\* cap bounds the table.
SaveMessage(sid, role, content, fault, cap) ==
    /\ Len(mensagens) < cap
    /\ mensagens' = MensagensAfterSave(sid, role, content, fault)
    /\ last' = [op |-> "save_message", sid |-> sid, role |-> role,
                content |-> content, fault |-> fault, ret |-> (fault = "none")]
    /\ UNCHANGED <<leads, now, webVars, configVars, gatewayVars>>

GetConversationHistory(sid, fault) ==
    /\ fault \in ReadFaults
    /\ \E h \in HistoryReturns(sid, fault) :
          last' = [op |-> "get_conversation_history", sid |-> sid,
                   fault |-> fault, ret |-> h]
    /\ UNCHANGED <<leads, mensagens, now, webVars, configVars, gatewayVars>>

GetLeadsStats(fault) ==
    /\ fault \in ReadFaults
    /\ last' = [op |-> "get_leads_stats", fault |-> fault, ret |-> StatsReturn(fault)]
    /\ UNCHANGED <<leads, mensagens, now, webVars, configVars, gatewayVars>>

\* One second passes on the engine's clock.
Tick ==
    /\ now < MaxClock
    /\ now' = now + 1
    /\ UNCHANGED <<leads, mensagens, last, webVars, configVars, gatewayVars>>

\* ------------------------------------------------------------ routes
\* str(uuid.uuid4()): an identifier no cookie and no row holds yet.  The
\* identifiers are opaque, so the generator is taken to hand them out in the
\* order of UuidPool.
UuidPool == <<"s1", "s2", "s3">>

IsFresh(sid) ==
    /\ \A c \in Clients : session[c] # sid
    /\ ~HasLead(leads, sid)
    /\ SessionRows(mensagens, sid) = <<>>

FreshIds ==
    {UuidPool[i] : i \in {j \in 1..Len(UuidPool) :
        IsFresh(UuidPool[j]) /\ \A k \in 1..(j - 1) : ~IsFresh(UuidPool[k])}}

\* GET / from browser c: a browser without session_id gets a new one and, if
\* the store exists, create_lead is called for it (its result is not read);
\* then the page is rendered.
Index(c, fault) ==
    /\ IF session[c] = NoSession
       THEN \E sid \in FreshIds :
              /\ session' = [session EXCEPT ![c] = sid]
              /\ IF lead_manager
                 THEN leads' = LeadsAfterCreate(sid, fault)
                 ELSE fault = "none" /\ UNCHANGED leads
       ELSE fault = "none" /\ UNCHANGED <<session, leads>>
    /\ UNCHANGED <<mensagens, now, last, pc, req, turns, calls, configVars,
                   gatewayVars>>

\* Request bodies of POST /chat: get_json() gives None, or a dictionary whose
\* 'message' is absent, a number, or a string.
NullBody == [json |-> "null"]
DictBody(kind, text) == [json |-> "dict", message |-> kind, text |-> text]

Bodies ==
    {NullBody,
     DictBody("absent", <<>>),
     DictBody("number", <<>>),
     DictBody("str", <<>>),
     DictBody("str", <<Space>>),
     DictBody("str", <<Space, "oi", Space>>)}

\* data.get('message', '') without .strip()
UserMessageRaw(body) ==
    IF body.message = "absent" THEN <<>> ELSE body.text

\* data.get('message', '').strip()
UserMessage(body) ==
    IF body.message = "absent" THEN Strip(<<>>) ELSE Strip(body.text)

Accepted == [status |-> 0]

\* chat() up to its first store call: the response it returns early, or
\* Accepted.  A None body and a non-string message raise AttributeError
\* inside the try block.
Validate(c, body) ==
    IF ~chatbot
    THEN [status |-> 500, error |-> "Chatbot nao configurado. Verifique GROQ_API_KEY."]
    ELSE IF ~lead_manager
    THEN [status |-> 500, error |-> "Sistema de banco nao configurado."]
    ELSE IF body.json = "null" \/ body.message = "number"
    THEN [status |-> 500, error |-> "Erro interno do servidor"]
    ELSE IF UserMessage(body) = <<>>
    THEN [status |-> 400, error |-> "Mensagem vazia"]
    ELSE IF session[c] = NoSession
    THEN [status |-> 400, error |-> "Sessao invalida"]
    ELSE Accepted

\* POST /chat that returns before any store call.
ChatReject(t, c, body) ==
    /\ pc[t] = "idle"
    /\ Validate(c, body) # Accepted
    /\ req' = [req EXCEPT ![t] =
                 [client |-> c, body |-> body, session_id |-> session[c],
                  answer |-> Validate(c, body)]]
    /\ pc' = [pc EXCEPT ![t] = "answered"]
    /\ UNCHANGED <<storeVars, session, turns, calls, configVars, gatewayVars>>

\* POST /chat, lines 675-686: validation passed, save_message(user).
ChatSaveUser(t, c, body, fault) ==
    /\ pc[t] = "idle"
    /\ turns < MaxTurns
    /\ Validate(c, body) = Accepted
    /\ mensagens' = MensagensAfterSave(session[c], "user", UserMessage(body), fault)
    /\ req' = [req EXCEPT ![t] =
                 [client |-> c, body |-> body, session_id |-> session[c],
                  user_message |-> UserMessage(body),
                  store_ok |-> (fault = "none"),
                  history |-> <<>>, sent |-> <<>>, bot_response |-> <<>>]]
    /\ pc' = [pc EXCEPT ![t] = "saved_user"]
    /\ turns' = turns + 1
    /\ UNCHANGED <<leads, now, last, session, calls, configVars, gatewayVars>>

\* POST /chat, line 689: history = get_conversation_history(session_id).
ChatReadHistory(t, fault) ==
    /\ pc[t] = "saved_user"
    /\ fault \in ReadFaults
    /\ \E h \in HistoryReturns(req[t].session_id, fault) :
          req' = [req EXCEPT ![t].history = h,
                             ![t].store_ok = @ /\ fault = "none"]
    /\ pc' = [pc EXCEPT ![t] = "have_history"]
    /\ UNCHANGED <<storeVars, session, turns, calls, configVars, gatewayVars>>

\* A get_response that calls the endpoint a second time after a timeout.
ChatGetResponseRetrying(t, outcome) ==
    LET r == GetResponse(req[t].user_message, req[t].history, outcome) IN
    /\ pc[t] = "have_history"
    /\ ~r.raised
    /\ calls' = IF outcome.kind = "timeout" THEN calls + 2 ELSE calls + 1
    /\ pc' = [pc EXCEPT ![t] = "have_reply"]
    /\ req' = [req EXCEPT ![t].sent = r.sent, ![t].bot_response = r.value]
    /\ UNCHANGED <<storeVars, session, turns, configVars, gatewayVars>>

\* POST /chat, line 692: bot_response = get_response(user_message, history);
\* an exception it raised is caught at line 702.
ChatGetResponse(t, outcome) ==
    LET r == GetResponse(req[t].user_message, req[t].history, outcome) IN
    /\ pc[t] = "have_history"
    /\ calls' = IF r.called THEN calls + 1 ELSE calls
    /\ IF r.raised
       THEN /\ pc' = [pc EXCEPT ![t] = "answered"]
            /\ req' = [req EXCEPT ![t] =
                         [client |-> req[t].client, body |-> req[t].body,
                          session_id |-> req[t].session_id,
                          answer |-> [status |-> 500,
                                      error |-> "Erro interno do servidor"]]]
       ELSE /\ pc' = [pc EXCEPT ![t] = "have_reply"]
            /\ req' = [req EXCEPT ![t].sent = r.sent, ![t].bot_response = r.value]
    /\ UNCHANGED <<storeVars, session, turns, configVars, gatewayVars>>

\* POST /chat, lines 695-700: save_message(assistant), then the 200 response.
ChatSaveAssistant(t, fault) ==
    /\ pc[t] = "have_reply"
    /\ mensagens' = MensagensAfterSave(req[t].session_id, "assistant",
                                       req[t].bot_response, fault)
    /\ req' = [req EXCEPT ![t] =
                 [client |-> req[t].client, body |-> req[t].body,
                  session_id |-> req[t].session_id,
                  answer |-> [status |-> 200, response |-> req[t].bot_response,
                              session_id |-> req[t].session_id]]]
    /\ pc' = [pc EXCEPT ![t] = "answered"]
    /\ UNCHANGED <<leads, now, last, session, turns, calls, configVars,
                   gatewayVars>>

\* The response has gone out and the thread takes the next request.
ChatReturn(t) ==
    /\ pc[t] = "answered"
    /\ pc' = [pc EXCEPT ![t] = "idle"]
    /\ req' = [req EXCEPT ![t] = NoRequest]
    /\ UNCHANGED <<storeVars, session, turns, calls, configVars, gatewayVars>>

\* 'PostgreSQL' if DATABASE_URL.startswith('postgresql') else 'SQLite', the
\* expression of health() and of the startup banner.
DatabaseType(db_url) ==
    IF StartsWith(db_url, <<"postgres", "ql">>) THEN "PostgreSQL" ELSE "SQLite"

\* GET /health: the flags, and the statistics when the store object exists
\* (get_leads_stats never raises, so the except branch is not taken).  The
\* fields groq_configured and environment repeat the process environment and
\* are left out.
HealthStatus(fault) ==
    LET flags == [status |-> "ok",
                  database |-> IF lead_manager THEN "connected" ELSE "error",
                  database_type |-> DatabaseType(DATABASE_URL)]
    IN  IF lead_manager THEN flags @@ StatsReturn(fault) ELSE flags

Health(fault) ==
    /\ fault \in (IF lead_manager THEN ReadFaults ELSE {"none"})
    /\ last' = [op |-> "health", fault |-> fault, ret |-> HealthStatus(fault)]
    /\ UNCHANGED <<leads, mensagens, now, webVars, configVars, gatewayVars>>

\* The line of the startup banner that names the engine.
Banner ==
    /\ last' = [op |-> "banner", fault |-> "none",
                ret |-> DatabaseType(DATABASE_URL)]
    /\ UNCHANGED <<leads, mensagens, now, webVars, configVars, gatewayVars>>

\* ------------------------------------------------ get_response on its own
\* SpecGateway draws the arguments and the remote outcome, then calls.
GetResponseCall ==
    /\ g_out = NoResult
    /\ LET r == GetResponse(g_in.message, g_in.history, g_in.outcome) IN
       g_out' = [done |-> TRUE, raised |-> r.raised, called |-> r.called,
                 sent |-> r.sent, value |-> r.value]
    /\ UNCHANGED <<storeVars, webVars, configVars, g_in>>

\* ---------------------------------------------------------------- inputs
\* Dictionaries handed to update_lead: none, allowed keys, unknown keys
\* (session_id is a column outside the allow-list), both kinds together.
UpdateInputs ==
    {<<>>,
     [nome |-> "Ana", session_id |-> "s2"],
     [session_id |-> "s3", hackeado |-> "x"],
     [qualificado |-> SqlTrue, email |-> "ana@x.br"]}

Roles == {"user", "assistant"}

Contents == {<<"oi">>, <<"ola">>}

\* Outcomes of the remote call.
Timeout == [kind |-> "timeout"]
TransportError == [kind |-> "transport"]
Response(status, body) == [kind |-> "response", status |-> status, body |-> body]

Outcomes ==
    {Timeout, TransportError}
    \cup {Response(st, b) : st \in {200, 204, 304, 404, 500},
                            b \in {MalformedBody, GoodBody(<<Space, "ola", Space>>)}}

\* Sequences over S of length 0..n
SeqUpTo(S, n) == UNION {[1..k -> S] : k \in 0..n}

\* History entries as get_conversation_history builds them.
StoredEntries ==
    {[role |-> "user", content |-> <<"oi">>, timestamp |-> 0],
     [role |-> "assistant", content |-> <<"ola">>, timestamp |-> 0]}

\* Entries a caller can hand over that lack a key.
BrokenEntries ==
    {[content |-> <<"oi">>], [role |-> "user"]}

GatewayMessages == {<<"oi">>, <<"quanto", Space, "custa">>}

\* A store call of a request succeeds or fails when its connection is opened.
WebFaults == {"none", "connect"}

\* --------------------------------------------------------- specifications
\* The lead table under create_lead, update_lead, get_leads_stats and the
\* GET / of one browser.
NextLeads ==
    \/ \E f \in WebFaults : Index("A", f)
    \/ \E sid \in SessionIds, f \in Faults : CreateLead(sid, f)
    \/ \E sid \in SessionIds, d \in UpdateInputs, f \in Faults : UpdateLead(sid, d, f)
    \/ \E f \in Faults : GetLeadsStats(f)

SpecLeads == InitConfigured /\ [][NextLeads]_vars

\* The message log under save_message and get_conversation_history, over time.
NextMessages ==
    \/ \E sid \in SessionIds \ {"s3"}, r \in Roles, c \in Contents :
          SaveMessage(sid, r, c, "none", MaxMsgs)
    \/ \E sid \in SessionIds \ {"s3"} : GetConversationHistory(sid, "none")
    \/ Tick

SpecMessages == InitConfigured /\ [][NextMessages]_vars

\* Every store call, with every fault.
NextFaults ==
    \/ \E sid \in {"s1", "s2"}, f \in Faults : CreateLead(sid, f)
    \/ \E sid \in {"s1", "s2"}, d \in UpdateInputs, f \in Faults : UpdateLead(sid, d, f)
    \/ \E sid \in {"s1", "s2"}, r \in Roles, f \in Faults :
          SaveMessage(sid, r, <<"oi">>, f, MaxStoreMsgs)
    \/ \E sid \in {"s1", "s2"}, f \in Faults : GetConversationHistory(sid, f)
    \/ \E f \in Faults : GetLeadsStats(f)

SpecFaults == InitConfigured /\ [][NextFaults]_vars

\* get_response on histories of stored entries.
InitGateway ==
    /\ InitUrl
    /\ lead_manager = TRUE
    /\ chatbot = TRUE
    /\ InitStore
    /\ InitWeb
    /\ g_in \in [message : GatewayMessages,
                 history : SeqUpTo(StoredEntries, MaxHist),
                 outcome : Outcomes]
    /\ g_out = NoResult

NextGateway == GetResponseCall

SpecGateway == InitGateway /\ [][NextGateway]_vars

\* get_response on any list of dictionaries.
InitGatewayAny ==
    /\ InitUrl
    /\ lead_manager = TRUE
    /\ chatbot = TRUE
    /\ InitStore
    /\ InitWeb
    /\ g_in \in [message : GatewayMessages,
                 history : SeqUpTo(StoredEntries \cup BrokenEntries, MaxAnyHist),
                 outcome : Outcomes]
    /\ g_out = NoResult

SpecGatewayAny == InitGatewayAny /\ [][NextGateway]_vars

\* The web service: GET / and POST /chat on concurrent request threads.  The
\* requests of one behaviour fall within one second of the engine's clock, so
\* every stored timestamp ties and get_conversation_history may return the
\* rows of a session in any order; with distinct timestamps it returns one of
\* these orders.
WebOutcomes == {Timeout, Response(200, GoodBody(<<Space, "ola", Space>>))}

WebBodies == {DictBody("str", <<Space>>), DictBody("str", <<Space, "oi", Space>>)}

Next ==
    \/ \E c \in Clients, f \in WebFaults : Index(c, f)
    \/ \E t \in Threads, c \in Clients, b \in WebBodies : ChatReject(t, c, b)
    \/ \E t \in Threads, c \in Clients, b \in WebBodies, f \in WebFaults :
          ChatSaveUser(t, c, b, f)
    \/ \E t \in Threads, f \in WebFaults : ChatReadHistory(t, f)
    \/ \E t \in Threads, o \in WebOutcomes : ChatGetResponse(t, o)
    \/ \E t \in Threads, f \in WebFaults : ChatSaveAssistant(t, f)
    \/ \E t \in Threads : ChatReturn(t)

Spec == Init /\ [][Next]_vars

\* POST /chat served by one thread, one request after the other, with every
\* request body; the requests fall within one second, as in Spec.
ChatOutcomes ==
    {Timeout, TransportError, Response(500, MalformedBody),
     Response(200, GoodBody(<<Space, "ola", Space>>))}

NextChat ==
    \/ \E c \in Clients, f \in WebFaults : Index(c, f)
    \/ \E c \in Clients, b \in Bodies : ChatReject("t1", c, b)
    \/ \E c \in Clients, b \in Bodies, f \in WebFaults : ChatSaveUser("t1", c, b, f)
    \/ \E f \in WebFaults : ChatReadHistory("t1", f)
    \/ \E o \in ChatOutcomes : ChatGetResponse("t1", o)
    \/ \E f \in WebFaults : ChatSaveAssistant("t1", f)
    \/ ChatReturn("t1")

SpecChat == Init /\ [][NextChat]_vars

\* Names and e-mails written by update_lead, the empty string among them, and
\* the statistics read back.
StatsInputs ==
    {[nome |-> ""], [nome |-> "Ana"], [email |-> ""], [email |-> "ana@x.br"]}

NextStats ==
    \/ \E sid \in {"s1", "s2"} : CreateLead(sid, "none")
    \/ \E sid \in {"s1", "s2"}, d \in StatsInputs : UpdateLead(sid, d, "none")
    \/ GetLeadsStats("none")

SpecStats == InitConfigured /\ [][NextStats]_vars

\* Two browsers served at the same time, each by its own request thread and
\* each sending its own text: GET / calls create_lead, POST /chat calls
\* save_message and get_conversation_history, and update_lead is called for
\* either session beside them; store and endpoint work.
ThreadOf == [A |-> "t1", B |-> "t2"]

BodyOf ==
    [A |-> DictBody("str", <<"oi">>),
     B |-> DictBody("str", <<"quanto", Space, "custa">>)]

SessionsUpdate == [nome |-> "Ana", session_id |-> "s2"]

NextSessions ==
    \/ \E c \in Clients : Index(c, "none")
    \/ \E c \in Clients : ChatSaveUser(ThreadOf[c], c, BodyOf[c], "none")
    \/ \E t \in Threads : ChatReadHistory(t, "none")
    \/ \E t \in Threads :
          ChatGetResponse(t, Response(200, GoodBody(<<Space, "ola", Space>>)))
    \/ \E t \in Threads : ChatSaveAssistant(t, "none")
    \/ \E t \in Threads : ChatReturn(t)
    \/ \E sid \in {"s1", "s2"} : UpdateLead(sid, SessionsUpdate, "none")

SpecSessions == InitConfigured /\ [][NextSessions]_vars

\* One browser whose POST /chat requests are served by two request threads at
\* the same time; store and endpoint work.
NextSameSession ==
    \/ Index("A", "none")
    \/ \E t \in Threads :
          ChatSaveUser(t, "A", DictBody("str", <<Space, "oi", Space>>), "none")
    \/ \E t \in Threads : ChatReadHistory(t, "none")
    \/ \E t \in Threads :
          ChatGetResponse(t, Response(200, GoodBody(<<Space, "ola", Space>>)))
    \/ \E t \in Threads : ChatSaveAssistant(t, "none")
    \/ \E t \in Threads : ChatReturn(t)

SpecSameSession == InitConfigured /\ [][NextSameSession]_vars

\* Connection strings: a file path, the two PostgreSQL schemes, a string that
\* begins with postgresql without being a PostgreSQL URL, another scheme.
DatabaseUrls ==
    {DefaultDatabaseUrl,
     <<"postgres", "ql", "://", "user@host/db">>,
     <<"postgres", "://", "user@host/db">>,
     <<"postgres", "ql", "_leads.db">>,
     <<"postgres", "_leads.db">>,
     <<"sqlite", "://", "/leads.db">>}

\* The service started on any connection string, then GET /health and the
\* banner beside GET / and update_lead.
InitHealth ==
    /\ DATABASE_URL \in DatabaseUrls
    /\ \E cfg \in Configs : lead_manager = cfg[1] /\ chatbot = cfg[2]
    /\ InitStore
    /\ InitWeb
    /\ InitGatewayIdle

NextHealth ==
    \/ \E f \in Faults : Health(f)
    \/ Banner
    \/ \E c \in Clients, f \in WebFaults : Index(c, f)
    \/ \E sid \in {"s1", "s2"} :
          lead_manager /\ UpdateLead(sid, [qualificado |-> SqlTrue, email |-> "ana@x.br"], "none")

SpecHealth == InitHealth /\ [][NextHealth]_vars

\* ------------------------------------------------------------------ claims
\* C1: the sequence get_response sends is the system entry with the fixed
\* prompt, then the last 8 entries of the history (all of it when it has at
\* most 8), each with its role and content and in their order, then the entry
\* {role: user, content: message}; its length is min(len(history), 8) + 2.
C1_PromptIsSystemRecentUser ==
    g_out.done =>
        LET h == g_in.history
            s == g_out.sent
            k == IF Len(h) > 8 THEN 8 ELSE Len(h)
        IN  /\ g_out.called
            /\ Len(s) = k + 2
            /\ s[1] = [role |-> "system", content |-> SystemPrompt]
            /\ \A i \in 1..k :
                  s[1 + i] = [role |-> h[Len(h) - k + i].role,
                              content |-> h[Len(h) - k + i].content]
            /\ s[k + 2] = [role |-> "user", content |-> g_in.message]

\* A history of 9 entries was cut to its last 8.
C1_Witness ==
    /\ g_out.done
    /\ Len(g_in.history) = 9
    /\ Len(g_out.sent) = 10
    /\ g_in.history[1].role # g_in.history[9].role

\* C2: in the first POST /chat of a fresh session, with the store working,
\* the store holds exactly the user message once it is saved, the gateway is
\* called with 2 entries (system + user), the user's message being in the
\* prompt exactly once, and after the turn the store holds user then
\* assistant.
C2_FirstTurnPromptHasTwoEntries ==
    [][\A t \in Threads :
         LET rows == SessionRows(mensagens', req'[t].session_id) IN
         /\ (pc'[t] \in {"saved_user", "have_history", "have_reply"}
               /\ req'[t].store_ok /\ Len(rows) = 1)
            => /\ rows[1].role = "user"
               /\ rows[1].content = req'[t].user_message
               /\ pc'[t] = "have_reply" =>
                    /\ Len(req'[t].sent) = 2
                    /\ Cardinality({i \in 1..Len(req'[t].sent) :
                          req'[t].sent[i].content = req'[t].user_message}) = 1
         /\ (pc[t] = "have_reply" /\ pc'[t] = "answered" /\ req[t].store_ok
               /\ mensagens' # mensagens /\ Len(rows) = 2)
            => /\ rows[1].role = "user"
               /\ rows[2].role = "assistant"
               /\ rows[2].content = req[t].bot_response]_vars

\* C3: get_conversation_history returns the messages saved under a session in
\* the order they were saved, role and content unchanged, also when several
\* of them carry the same timestamp.
C3_HistoryInSavedOrder ==
    (last.op = "get_conversation_history" /\ last.fault = "none") =>
        LET rows == SessionRows(mensagens, last.sid) IN
        /\ Len(last.ret) = Len(rows)
        /\ \A i \in 1..Len(rows) :
              /\ last.ret[i].role = rows[i].role
              /\ last.ret[i].content = rows[i].content

\* C4: get_response never raises, whatever history it is handed (entries
\* without role or content included) and however the remote call ends.
C4_GetResponseNeverRaises ==
    g_out.done => ~g_out.raised

C6_OneLeadPerSession ==
    /\ \A i, j \in 1..Len(leads) :
          leads[i]["session_id"] = leads[j]["session_id"] => i = j
    /\ (last.op = "create_lead" /\ last.fault = "none") =>
          /\ last.ret = TRUE
          /\ Cardinality({i \in 1..Len(leads) :
                leads[i]["session_id"] = last.sid}) = 1

\* create_lead returned True for a session whose row an update_lead had
\* already written, and next to the row of another session.
C6_Witness ==
    /\ last.op = "create_lead"
    /\ last.fault = "none"
    /\ last.ret = TRUE
    /\ Len(leads) >= 2
    /\ \E i \in 1..Len(leads) :
          leads[i]["session_id"] = last.sid /\ leads[i]["nome"] = "Ana"

\* C7: an update_lead that meets no storage fault returns True and changes
\* exactly the columns that are allow-listed and keys of data, in the rows of
\* its session: every other column of every row keeps its value, and no row
\* is added or removed.
C7_UpdateOnlyAllowListed ==
    [][(last' # last /\ last'.op = "update_lead" /\ last'.fault = "none") =>
         LET allowed == {"nome", "empresa", "segmento", "problema",
                         "investimento_atual", "telefone", "email",
                         "qualificado", "conversa_completa"}
             data == last'.data
         IN  /\ last'.ret = TRUE
             /\ Len(leads') = Len(leads)
             /\ \A i \in 1..Len(leads) : \A c \in LeadColumns :
                   leads'[i][c] =
                      IF leads[i]["session_id"] = last'.sid
                         /\ c \in allowed /\ c \in DOMAIN data
                      THEN data[c]
                      ELSE leads[i][c]]_vars

\* The mixed dictionary {nome, session_id} was applied to the row of s1: the
\* name is set and the row is still the row of s1.
C7_Witness ==
    /\ last.op = "update_lead"
    /\ last.fault = "none"
    /\ last.sid = "s1"
    /\ last.data = [nome |-> "Ana", session_id |-> "s2"]
    /\ \E i \in 1..Len(leads) :
          leads[i]["session_id"] = "s1" /\ leads[i]["nome"] = "Ana"

\* C8: get_leads_stats on a working store reports total_leads = N, the number
\* of rows, and leads_qualificados = Q, the number of rows with the flag set,
\* 0 <= Q <= N; taxa_qualificacao is 0 when N = 0 and otherwise Q/N*100
\* rounded to one decimal (in tenths: the integer nearest to 1000*Q/N), so it
\* lies between 0 and 100.
C8_QualificationRate ==
    [][(last' # last /\ last'.op = "get_leads_stats" /\ last'.fault = "none") =>
         LET n == Len(leads)
             q == Cardinality({i \in 1..Len(leads) :
                                 leads[i]["qualificado"] = SqlTrue})
             r == last'.ret
         IN  /\ r.total_leads = n
             /\ r.leads_qualificados = q
             /\ 0 <= q /\ q <= n
             /\ n = 0 => r.taxa_qualificacao = 0
             /\ n > 0 =>
                  /\ 2 * (r.taxa_qualificacao * n - 1000 * q) <= n
                  /\ 2 * (1000 * q - r.taxa_qualificacao * n) <= n
             /\ 0 <= r.taxa_qualificacao /\ r.taxa_qualificacao <= 1000]_vars

\* Two of three leads are qualified: 66.7.
C8_Witness ==
    /\ last.op = "get_leads_stats"
    /\ last.fault = "none"
    /\ last.ret.total_leads = 3
    /\ last.ret.leads_qualificados = 2
    /\ last.ret.taxa_qualificacao = 667

\* C9: a store call that meets a storage fault returns its safe default
\* (False for create_lead, update_lead and save_message, [] for
\* get_conversation_history, all-zero counts for get_leads_stats) and leaves
\* both tables as they were.
C9_FaultGivesSafeDefault ==
    [][(last' # last /\ last'.fault # "none") =>
         /\ leads' = leads
         /\ mensagens' = mensagens
         /\ last'.op \in {"create_lead", "update_lead", "save_message"}
               => last'.ret = FALSE
         /\ last'.op = "get_conversation_history" => last'.ret = <<>>
         /\ last'.op = "get_leads_stats" =>
               last'.ret = [total_leads |-> 0, leads_qualificados |-> 0,
                            leads_com_nome |-> 0, leads_com_email |-> 0,
                            taxa_qualificacao |-> 0]]_vars

\* An update_lead of an existing row failed at commit and returned False.
C9_Witness ==
    /\ last.op = "update_lead"
    /\ last.fault = "commit"
    /\ last.ret = FALSE
    /\ HasLead(leads, last.sid)
    /\ Len(mensagens) > 0

\* C10: POST /chat that answers before its first store call changes neither
\* table, makes no gateway call, and answers 500 when the gateway or the
\* store is not configured, 400 when the message is empty after trimming,
\* 400 when the request has no session identifier; a request goes on to
\* save_message only with both globals set, a message with a non-blank piece
\* and a session identifier, and only such a request changes mensagens or
\* calls the gateway.
C10_RejectChangesNothing ==
    [][\A t \in Threads :
         LET blank(b) == b.message = "absent"
                         \/ \A i \in 1..Len(b.text) : b.text[i] = Space
             text(b)  == b.json = "dict" /\ b.message \in {"absent", "str"}
         IN
         /\ (pc[t] = "idle" /\ pc'[t] = "answered") =>
               LET a == req'[t].answer
                   b == req'[t].body
               IN  /\ leads' = leads /\ mensagens' = mensagens
                   /\ calls' = calls /\ session' = session
                   /\ a.status \in {400, 500}
                   /\ (~chatbot \/ ~lead_manager) => a.status = 500
                   /\ (chatbot /\ lead_manager /\ text(b) /\ blank(b))
                         => a.status = 400
                   /\ (chatbot /\ lead_manager /\ text(b) /\ ~blank(b))
                         => a.status = 400 /\ req'[t].session_id = NoSession
         /\ (pc[t] = "idle" /\ pc'[t] = "saved_user") =>
               LET b == req'[t].body IN
               /\ chatbot /\ lead_manager
               /\ text(b) /\ ~blank(b)
               /\ req'[t].user_message # <<>>
               /\ req'[t].session_id # NoSession
               /\ req'[t].session_id = session[req'[t].client]
         /\ (mensagens' # mensagens \/ calls' # calls) =>
               \E u \in Threads :
                  /\ pc'[u] # pc[u]
                  /\ pc'[u] \in {"saved_user", "have_reply", "answered"}
                  /\ LET r == IF pc[u] = "idle" THEN req'[u] ELSE req[u] IN
                     /\ pc[u] # "idle" \/ pc'[u] = "saved_user"
                     /\ text(r.body) /\ ~blank(r.body)
                     /\ r.session_id # NoSession]_vars

\* A blank message was answered 400 while the store already held messages.
C10_Witness ==
    \E t \in Threads :
       /\ pc[t] = "answered"
       /\ req[t].body = DictBody("str", <<Space>>)
       /\ req[t].answer.status = 400
       /\ Len(mensagens) > 0

\* C11: after any GET / the browser's session holds a session_id and the
\* table leads holds a row for it, also when create_lead failed or the store
\* is absent, and on a later GET / of a session that holds an identifier.
C11_IndexEnsuresLead ==
    \A c \in Clients : session[c] # NoSession => HasLead(leads, session[c])

\* C12: in a chat turn whose user message was saved and whose completion call
\* failed (timeout, HTTP error, transport error), or whose assistant save
\* failed, the turn adds no assistant-role row: the history has grown by the
\* one user message only.
C12_FailedTurnAddsNoAssistant ==
    [][\A t \in Threads :
         (/\ pc[t] = "have_reply"
          /\ pc'[t] = "answered"
          /\ req[t].store_ok
          /\ \/ req[t].bot_response \in {TimeoutReply, HttpErrorReply, GenericReply}
             \/ Len(mensagens') = Len(mensagens))
         => /\ mensagens' = mensagens
            /\ LET rows == SessionRows(mensagens', req[t].session_id) IN
               /\ rows # <<>>
               /\ rows[Len(rows)].role = "user"
               /\ rows[Len(rows)].content = req[t].user_message]_vars

\* C13: an invocation of get_response makes exactly one outbound call to the
\* completion endpoint, whatever the outcome (no second call after a timeout,
\* an HTTP error or any other failure); no other step of the service calls
\* the endpoint; and each POST /chat that passed validation invokes
\* get_response exactly once, so the calls made are the accepted requests
\* less those that have not reached get_response yet.
C13_OneCallPerTurn ==
    [][/\ \A t \in Threads :
            (pc[t] = "have_history" /\ pc'[t] # pc[t]) =>
               /\ calls' = calls + 1
               /\ pc'[t] = "have_reply"
               /\ req'[t].sent # <<>>
       /\ (\A t \in Threads : ~(pc[t] = "have_history" /\ pc'[t] # pc[t]))
            => calls' = calls
       /\ \A t \in Threads :
            (pc[t] = "have_reply" /\ pc'[t] # pc[t]) => pc'[t] = "answered"
       /\ turns' = calls'
             + Cardinality({t \in Threads : pc'[t] \in {"saved_user", "have_history"}})]_vars

\* A turn whose call timed out has been answered, and a second turn whose
\* call got an HTTP error is about to be: two requests, two calls.
C13_Witness ==
    /\ turns = 2
    /\ calls = 2
    /\ \E t \in Threads :
          /\ pc[t] = "have_reply"
          /\ req[t].bot_response = HttpErrorReply
    /\ \E i \in 1..Len(mensagens) : mensagens[i].content = TimeoutReply

\* C14: update_lead for a session_id that has no row in leads changes
\* nothing, whatever dictionary it is handed: no row is created and every
\* row of every other session keeps its content; it returns True whenever it
\* met no storage fault.
C14_UpdateOfUnknownSessionIsNoOp ==
    [][(/\ last'.op = "update_lead"
        /\ last' # last
        /\ ~HasLead(leads, last'.sid))
       => /\ leads' = leads
          /\ ~HasLead(leads', last'.sid)
          /\ last'.fault = "none" => last'.ret = TRUE]_vars

\* update_lead with allow-listed keys returned True for a session without a
\* row, beside the written row of another session.
C14_Witness ==
    /\ last.op = "update_lead"
    /\ last.fault = "none"
    /\ last.ret = TRUE
    /\ last.data = [qualificado |-> SqlTrue, email |-> "ana@x.br"]
    /\ ~HasLead(leads, last.sid)
    /\ \E i \in 1..Len(leads) : leads[i]["nome"] = "Ana"

\* C15: get_leads_stats reports as leads_com_nome the number of leads whose
\* name is non-empty and as leads_com_email the number whose e-mail is
\* non-empty: a lead whose name (e-mail) update_lead set to the empty string
\* is not counted, like a lead whose name (e-mail) was never set.
C15_CountsNonEmptyNameAndEmail ==
    (last.op = "get_leads_stats" /\ last.fault = "none") =>
        /\ last.ret.leads_com_nome =
              Cardinality({i \in 1..Len(leads) : leads[i]["nome"] \notin {Null, ""}})
        /\ last.ret.leads_com_email =
              Cardinality({i \in 1..Len(leads) : leads[i]["email"] \notin {Null, ""}})

\* C16: under any interleaving of the requests and store calls of two
\* sessions, a step taken for one session (create_lead, update_lead,
\* save_message, GET /, a step of POST /chat) leaves the lead row and the
\* messages of every other session as they were, and a history read for a
\* session holds exactly the messages saved under that session.
C16_SessionsDoNotInterfere ==
    [][LET LeadOf(ls, sid) == SelectSeq(ls, LAMBDA r : r["session_id"] = sid)
           MsgsOf(ms, sid) == SelectSeq(ms, LAMBDA r : r.session_id = sid)
           direct == pc' = pc /\ session' = session
           actors ==
               {req[t].session_id : t \in {u \in Threads : pc'[u] # pc[u] /\ pc[u] # "idle"}}
               \cup {req'[t].session_id : t \in {u \in Threads : pc'[u] # pc[u] /\ pc[u] = "idle"}}
               \cup {session'[c] : c \in {d \in Clients : session'[d] # session[d]}}
               \cup (IF direct /\ last'.op # "none" THEN {last'.sid} ELSE {})
           Times(xs, e) ==
               Cardinality({j \in 1..Len(xs) :
                  xs[j].role = e.role /\ xs[j].content = e.content})
           Same(h, rows) ==
               /\ Len(h) = Len(rows)
               /\ \A i \in 1..Len(h) : Times(h, h[i]) = Times(rows, h[i])
       IN
       /\ Cardinality(actors) <= 1
       /\ \A other \in SessionIds \ actors :
             /\ LeadOf(leads', other) = LeadOf(leads, other)
             /\ MsgsOf(mensagens', other) = MsgsOf(mensagens, other)
       /\ \A t \in Threads :
             (pc[t] = "saved_user" /\ pc'[t] = "have_history") =>
                Same(req'[t].history, MsgsOf(mensagens, req[t].session_id))]_vars

\* Both threads are inside a turn, each for its own session; the thread of
\* one session has read a history of its own one message although the
\* message of the other session was saved before it, and a lead row has been
\* written.
C16_Witness ==
    /\ pc["t1"] = "have_history"
    /\ pc["t2"] \in {"saved_user", "have_history", "have_reply"}
    /\ req["t1"].session_id # req["t2"].session_id
    /\ Len(mensagens) = 2
    /\ mensagens[1].session_id = req["t2"].session_id
    /\ mensagens[2].session_id = req["t1"].session_id
    /\ Len(req["t1"].history) = 1
    /\ req["t1"].history[1].content = <<"oi">>
    /\ \E i \in 1..Len(leads) : leads[i]["nome"] = "Ana"

\* C17: a chat turn reads the session's history first, then calls the
\* gateway, and only then persists the user turn and the assistant turn: no
\* message is written before the gateway has been called, so the history
\* handed to the gateway was read while the current message was not stored,
\* and the rows written after the call include the user message.
C17_ReadThenCallThenPersist ==
    [][\A t \in Threads :
         /\ (pc'[t] # pc[t] /\ pc'[t] \in {"saved_user", "have_history", "have_reply"})
               => mensagens' = mensagens
         /\ (pc[t] = "have_reply" /\ pc'[t] = "answered" /\ mensagens' # mensagens)
               => \E i \in (Len(mensagens) + 1)..Len(mensagens') :
                     /\ mensagens'[i].role = "user"
                     /\ mensagens'[i].session_id = req[t].session_id
                     /\ mensagens'[i].content = req[t].user_message]_vars

\* C18: create_lead on a session_id that has a row leaves the table as it
\* is, every attribute update_lead wrote keeping its value; create_lead on a
\* session_id without a row adds one row whose optional attributes are all
\* unset and whose qualified flag is false, and leaves the other rows as
\* they are.  The same for the create_lead that GET / makes, which may fail.
C18_CreateKeepsExistingLead ==
    [][LET direct ==
              IF last' # last /\ last'.op = "create_lead" /\ last'.fault = "none"
              THEN {last'.sid} ELSE {}
           created ==
              direct \cup {session'[c] : c \in {d \in Clients : session'[d] # session[d]}}
       IN  \A sid \in created :
              IF \E i \in 1..Len(leads) : leads[i]["session_id"] = sid
              THEN leads' = leads
              ELSE \/ sid \notin direct /\ leads' = leads
                   \/ /\ Len(leads') = Len(leads) + 1
                      /\ \A i \in 1..Len(leads) : leads'[i] = leads[i]
                      /\ leads'[Len(leads')]["session_id"] = sid
                      /\ leads'[Len(leads')]["qualificado"] = SqlFalse
                      /\ \A c \in LeadColumns \ {"session_id", "qualificado"} :
                            leads'[Len(leads')][c] = Null]_vars

\* create_lead returned True for a session whose row holds an e-mail and the
\* qualified flag written by update_lead.
C18_Witness ==
    /\ last.op = "create_lead"
    /\ last.fault = "none"
    /\ last.ret = TRUE
    /\ \E i \in 1..Len(leads) :
          /\ leads[i]["session_id"] = last.sid
          /\ leads[i]["email"] = "ana@x.br"
          /\ leads[i]["qualificado"] = SqlTrue

\* C19: with store and endpoint working, the stored messages of a session
\* alternate user, assistant, user, assistant, ... starting with user, also
\* when two POST /chat requests of the session are served at the same time.
C19_RolesAlternate ==
    \A sid \in SessionIds :
       LET rows == SelectSeq(mensagens, LAMBDA r : r.session_id = sid) IN
       \A i \in 1..Len(rows) :
          rows[i].role = IF i % 2 = 1 THEN "user" ELSE "assistant"

\* C20: for every connection string, the database_type that GET /health
\* reports and the engine the startup banner names are 'PostgreSQL' exactly
\* when the store uses PostgreSQL (is_postgres: the string starts with
\* postgresql:// or postgres://), and 'SQLite' otherwise.
C20_HealthNamesTheEngine ==
    LET engine == IF IsPostgres(DATABASE_URL) THEN "PostgreSQL" ELSE "SQLite" IN
    lead_manager =>
       /\ last.op = "health" => last.ret.database_type = engine
       /\ last.op = "banner" => last.ret = engine

====
